---- MODULE Spec2Model ----
(***************************************************************************)
(* A model of SimpleHTTPServer (src/main.py): the accept loop of serve,    *)
(* read_handler, the built-in method handlers, the response templates      *)
(* _basic_ok / _basic_error and write_handler, together with the clients   *)
(* of src/http_server_tests.py that drive it.                              *)
(*                                                                         *)
(* Byte strings and text are sequences of one-character strings, so that   *)
(* splitting, formatting and length are computed as the code computes      *)
(* them.  The server only handles ASCII in the modelled inputs; one extra  *)
(* token, BadByte, stands for a byte that is not valid UTF-8.              *)
(***************************************************************************)
EXTENDS Integers, Sequences, FiniteSets, TLC

VARIABLES
    pc,             \* position of the server thread in serve()
    backlog,        \* established connections waiting in the listen queue
    conn,           \* the connection returned by the last accept()
    data,           \* the bytes returned by the last conn.recv(1024)
    response_data,  \* the value returned by the last read_handler(data)
    cstate,         \* per client: "new", "open" or "closed" (client side)
    tosend,         \* per client: bytes the client has still to send
    nreq,           \* per client: number of requests handed to its socket
    sockbuf,        \* per connection: bytes arrived and not yet read by recv
    rx,             \* per connection: bytes the server has written to it
    srvClosed,      \* per connection: the server has closed its end
    installed,      \* self.METHODS_MAP: the handler installed under each key
    invoked,        \* the handlers the last read_handler(data) has called
    ops             \* per connection: the socket calls and steps of serve on it

vars == <<pc, backlog, conn, data, response_data, cstate, tosend, nreq,
          sockbuf, rx, srvClosed, installed, invoked, ops>>

(***************************************************************************)
(* Bounds of the model.                                                    *)
(***************************************************************************)
NumClients == 2

MaxRequests == 2

MaxBodyLen == 2

(***************************************************************************)
(* Program constants.                                                      *)
(***************************************************************************)
RecvSize == 1024

ListenBacklog == 1

(***************************************************************************)
(* Characters and sequence helpers (Python str / bytes primitives).        *)
(***************************************************************************)
CR == "\r"

LF == "\n"

SP == " "

CRLF == <<CR, LF>>

BadByte == "0xFF"

Take(s, n) == SubSeq(s, 1, IF n < Len(s) THEN n ELSE Len(s))

Drop(s, n) == SubSeq(s, n + 1, Len(s))

\* The indexes at which the character sep occurs in s.
SepPositions(s, sep) == {i \in 1..Len(s) : s[i] = sep}

\* str.split(sep) for a one-character separator: the fields between
\* consecutive separators, empty fields kept.
split(s, sep) ==
    LET P == SepPositions(s, sep)
        k == Cardinality(P)
        rank == [p \in P |-> Cardinality({q \in P : q <= p})]
        at(j) == IF j = 0 THEN 0
                 ELSE IF j = k + 1 THEN Len(s) + 1
                 ELSE CHOOSE p \in P : rank[p] = j
    IN  [j \in 1..(k + 1) |-> SubSeq(s, at(j - 1) + 1, at(j) - 1)]

DigitChars == <<"0", "1", "2", "3", "4", "5", "6", "7", "8", "9">>

RECURSIVE str(_)
\* str(n) / the f-string rendering of a non-negative int: decimal digits.
str(n) ==
    IF n < 10 THEN <<DigitChars[n + 1]>>
    ELSE str(n \div 10) \o <<DigitChars[(n % 10) + 1]>>

\* bytes.decode("utf8") raises UnicodeDecodeError on an invalid byte; on the
\* ASCII bytes of the model it yields the same characters.
decode_raises(bytes) == \E i \in 1..Len(bytes) : bytes[i] = BadByte

decode(bytes) == bytes

\* str.encode("utf8") of ASCII text: one byte per character.
encode(text) == text

(***************************************************************************)
(* String literals of src/main.py.                                         *)
(***************************************************************************)
S_GET ==
    <<"G","E","T">>

S_POST ==
    <<"P","O","S","T">>

S_PUT ==
    <<"P","U","T">>

S_DELETE ==
    <<"D","E","L","E","T","E">>

S_HEAD ==
    <<"H","E","A","D">>

SUPPORTED_PROTOCOL ==
    <<"H","T","T","P","/","1",".","1">>

S_HTTP11 ==
    <<"H","T","T","P","/","1",".","1">>

MsgGet ==
    <<"Y","o","u"," ","c","a","l","l","e","d"," ","G","E","T",","," ","N","o","t"," ","S","u",
      "r","e"," ","w","h","a","t"," ","t","o"," ","d","o"," ","n","e","x","t">>

MsgPost ==
    <<"Y","o","u"," ","c","a","l","l","e","d"," ","P","O","S","T",","," ","N","o","t"," ","S",
      "u","r","e"," ","w","h","a","t"," ","t","o"," ","d","o"," ","n","e","x","t">>

MsgPut ==
    <<"Y","o","u"," ","c","a","l","l","e","d"," ","P","U","T",","," ","N","o","t"," ","S","u",
      "r","e"," ","w","h","a","t"," ","t","o"," ","d","o"," ","n","e","x","t">>

MsgDelete ==
    <<"Y","o","u"," ","c","a","l","l","e","d"," ","D","E","L","E","T","E",","," ","N","o","t",
      " ","S","u","r","e"," ","w","h","a","t"," ","t","o"," ","d","o"," ","n","e","x","t">>

Code200 ==
    <<"2","0","0"," ","O","k">>

Code201 ==
    <<"2","0","1"," ","C","r","e","a","t","e","d">>

Code204 ==
    <<"2","0","4"," ","N","o"," ","C","o","n","t","e","n","t">>

Msg500 ==
    <<"U","h","h","h",","," ","s","o","m","e","t","h","i","n","g"," ","d","i","d","n","'","t",
      " ","w","o","r","k">>

Code500 ==
    <<"5","0","0"," ","I","n","t","e","r","n","a","l"," ","S","e","r","v","e","r"," ","E","r",
      "r","o","r">>

Resp400 ==
    <<"H","T","T","P","/","1",".","1"," ","4","0","0"," ","B","a","d"," ","r","e","q","u","e",
      "s","t">>

Resp405Head ==
    <<"H","T","T","P","/","1",".","1"," ","4","0","5"," ","M","e","t","h","o","d"," ","n","o",
      "t"," ","a","l","l","o","w","e","d","\n","I"," ","o","n","l","y"," ","s","u","p","p","o",
      "r","t"," ">>

S_ContentLength ==
    <<"C","o","n","t","e","n","t","-","L","e","n","g","t","h",":"," ">>

S_ContentType ==
    <<"C","o","n","t","e","n","t","-","T","y","p","e",":"," ","t","e","x","t","/","h","t","m",
      "l">>

ReprBoundMethod ==
    <<"<","b","o","u","n","d"," ","m","e","t","h","o","d"," ","S","i","m","p","l","e","H","T",
      "T","P","S","e","r","v","e","r",".">>

ReprOfSelf ==
    <<" ","o","f"," ","<","_","_","m","a","i","n","_","_",".","S","i","m","p","l","e","H","T",
      "T","P","S","e","r","v","e","r"," ","o","b","j","e","c","t"," ","a","t"," ","0","x","7",
      "f","2","2","c","6","c","1","a","a","1","0",">",">">>

(***************************************************************************)
(* The response templates.                                                 *)
(***************************************************************************)
\* _basic_ok with the Content-Length line left out of the template.
_basic_ok_no_length(msg, response_code) ==
    SUPPORTED_PROTOCOL \o <<SP>> \o response_code \o CRLF
    \o S_ContentType \o CRLF
    \o CRLF
    \o msg \o <<LF>>

\* _basic_ok(msg, response_code): the triple-quoted f-string, whose first
\* three lines and blank line end in "\r" + newline and whose last line (the
\* message) ends in a bare newline.
_basic_ok(msg, response_code) ==
    LET msg_len == IF msg # <<>> THEN Len(msg) ELSE 0
    IN  SUPPORTED_PROTOCOL \o <<SP>> \o response_code \o CRLF
        \o S_ContentLength \o str(msg_len) \o CRLF
        \o S_ContentType \o CRLF
        \o CRLF
        \o msg \o <<LF>>

_basic_error(msg, error_code) ==
    LET msg_len == IF msg # <<>> THEN Len(msg) ELSE 0
    IN  SUPPORTED_PROTOCOL \o <<SP>> \o error_code \o CRLF
        \o S_ContentLength \o str(msg_len) \o CRLF
        \o S_ContentType \o CRLF
        \o CRLF
        \o msg \o <<LF>>

(***************************************************************************)
(* The built-in handlers; each ignores its arguments.                      *)
(***************************************************************************)
get_handler(start_line, lines) == _basic_ok(MsgGet, Code200)

post_handler(start_line, lines) == _basic_ok(MsgPost, Code200)

\* put_handler relying on the default response_code of _basic_ok.
put_handler_default_code(start_line, lines) == _basic_ok(MsgPut, Code200)

put_handler(start_line, lines) == _basic_ok(MsgPut, Code201)

delete_handler(start_line, lines) == _basic_ok(MsgDelete, Code204)

head_handler(start_line, lines) == _basic_ok(<<>>, Code200)

\* The table built in __init__: method token -> handler (a bound method,
\* named here by its attribute name), in insertion order.
N_get_handler ==
    <<"g","e","t","_","h","a","n","d","l","e","r">>

N_post_handler ==
    <<"p","o","s","t","_","h","a","n","d","l","e","r">>

N_put_handler ==
    <<"p","u","t","_","h","a","n","d","l","e","r">>

N_delete_handler ==
    <<"d","e","l","e","t","e","_","h","a","n","d","l","e","r">>

N_head_handler ==
    <<"h","e","a","d","_","h","a","n","d","l","e","r">>

MethodKeys == <<S_GET, S_POST, S_PUT, S_DELETE, S_HEAD>>

HandlerNames ==
    <<N_get_handler, N_post_handler, N_put_handler, N_delete_handler, N_head_handler>>

\* A table that also answers to get, the lower-case spelling of GET.
METHODS_MAP_any_case ==
    [k \in {MethodKeys[i] : i \in 1..Len(MethodKeys)} \cup {<<"g", "e", "t">>} |->
        IF k = <<"g", "e", "t">> THEN N_get_handler
        ELSE HandlerNames[CHOOSE i \in 1..Len(MethodKeys) : MethodKeys[i] = k]]

METHODS_MAP ==
    [k \in {MethodKeys[i] : i \in 1..Len(MethodKeys)} |->
        HandlerNames[CHOOSE i \in 1..Len(MethodKeys) : MethodKeys[i] = k]]

\* self.METHODS_MAP[key](start_line, lines)
CallHandler(h, start_line, lines) ==
    CASE h = N_get_handler -> get_handler(start_line, lines)
      [] h = N_post_handler -> post_handler(start_line, lines)
      [] h = N_put_handler -> put_handler(start_line, lines)
      [] h = N_delete_handler -> delete_handler(start_line, lines)
      [] h = N_head_handler -> head_handler(start_line, lines)

RECURSIVE ReprEntries(_)
ReprEntries(i) ==
    IF i > Len(MethodKeys) THEN <<>>
    ELSE (IF i > 1 THEN <<",", SP>> ELSE <<>>)
         \o <<"'">> \o MethodKeys[i] \o <<"'", ":", SP>>
         \o ReprBoundMethod \o METHODS_MAP[MethodKeys[i]] \o ReprOfSelf
         \o ReprEntries(i + 1)

\* The text "{self.METHODS_MAP}" renders to: the dict's repr.  The address in
\* ReprOfSelf is the one of a sample run; it differs from run to run and no
\* property below reads it.
ReprMethodsMap == <<"{">> \o ReprEntries(1) \o <<"}">>

(***************************************************************************)
(* read_handler.                                                           *)
(***************************************************************************)
Resp405 == Resp405Head \o ReprMethodsMap \o <<LF, LF>>

\* lines[0].split(" ") cannot raise TypeError, so the except branch of the
\* source is not reachable and has no counterpart here.
read_handler(bytes) ==
    LET s_data == decode(bytes)
        lines == split(s_data, LF)
        start_line == split(lines[1], SP)
    IN  IF start_line[1] \notin DOMAIN METHODS_MAP
        THEN IF Len(start_line) < 3 \/ start_line[3] # S_HTTP11
             THEN Resp400
             ELSE Resp405
        ELSE LET handler_result ==
                     CallHandler(METHODS_MAP[start_line[1]], start_line, lines)
             IN  IF handler_result = <<>>
                 THEN _basic_error(Msg500, Code500)
                 ELSE handler_result

\* What write_handler puts on the wire: bytes(f"{data} \n".encode("utf8")).
wire_bytes(resp) == encode(resp \o <<SP, LF>>)

(***************************************************************************)
(* The handlers installed in self.METHODS_MAP while serve runs.  The table *)
(* is an instance attribute: __init__ fills it with the built-in handlers, *)
(* and a subclass or a caller may put another callable under a key.  Two   *)
(* such callables are modelled: one that returns None, one that raises.    *)
(***************************************************************************)
N_none_handler ==
    <<"r","e","t","u","r","n","s","_","n","o","n","e">>

N_raising_handler ==
    <<"r","a","i","s","e","s">>

\* start_line = lines[0].split(" ") of read_handler.
start_line_of(bytes) == split(split(decode(bytes), LF)[1], SP)

\* The handlers read_handler calls for bytes when self.METHODS_MAP is table:
\* the entry under start_line[0] when that token is a key, none otherwise.
invoked_by(table, bytes) ==
    LET start_line == start_line_of(bytes)
    IN  IF start_line[1] \notin DOMAIN table
        THEN <<>>
        ELSE <<table[start_line[1]]>>

\* The call of line 69 raises: no try surrounds it, so read_handler raises.
handler_raises(called) == called = <<N_raising_handler>>

\* read_handler when self.METHODS_MAP is table (with the keys of __init__):
\* a handler that returns None leaves response_data falsy, which lines 70-74
\* replace by the 500 of _basic_error; a built-in handler is called as in
\* read_handler.
read_handler_installed(table, bytes) ==
    IF invoked_by(table, bytes) = <<N_none_handler>>
    THEN _basic_error(Msg500, Code500)
    ELSE read_handler(bytes)

\* METHODS_MAP with the handler under key k replaced by h.
Overridden(k, h) == [METHODS_MAP EXCEPT ![k] = h]

InstalledTables ==
    {METHODS_MAP}
    \cup {Overridden(k, h) : k \in DOMAIN METHODS_MAP,
                             h \in {N_none_handler, N_raising_handler}}

(***************************************************************************)
(* The clients: HTTPClient.send_request of src/http_server_tests.py, the   *)
(* raw requests its tests send, and their bare-LF forms.                   *)
(***************************************************************************)
S_PATCH ==
    <<"P","A","T","C","H">>

S_get ==
    <<"g","e","t">>

S_HTTPSlash ==
    <<"H","T","T","P","/">>

S_Host ==
    <<"H","o","s","t">>

S_HostValue ==
    <<"l","o","c","a","l","h","o","s","t",":","8","0","8","0">>

S_ContentLengthName ==
    <<"C","o","n","t","e","n","t","-","L","e","n","g","t","h">>

S_Connection ==
    <<"C","o","n","n","e","c","t","i","o","n">>

S_close ==
    <<"c","l","o","s","e">>

V11 ==
    <<"1",".","1">>

V10 ==
    <<"1",".","0">>

PathRoot ==
    <<"/">>

PathTest ==
    <<"/","t","e","s","t">>

RawInvalid ==
    <<"I","N","V","A","L","I","D"," ","R","E","Q","U","E","S","T"," ","L","I","N","E","\r","\n",
      "\r","\n">>

RawNoHost ==
    <<"G","E","T"," ","/"," ","H","T","T","P","/","1",".","1","\r","\n","\r","\n">>

RawGetOnly ==
    <<"G","E","T","\r","\n","\r","\n">>

RawGetFoo ==
    <<"G","E","T"," ","/"," ","F","O","O","\r","\n","\r","\n">>

RawBadUtf8 == <<"G", "E", "T", SP, "/", BadByte, SP>> \o S_HTTP11 \o CRLF \o CRLF

HasHeader(headers, name) == \E i \in 1..Len(headers) : headers[i][1] = name

RECURSIVE HeaderLines(_)
HeaderLines(headers) ==
    IF headers = <<>> THEN <<>>
    ELSE Head(headers)[1] \o <<":", SP>> \o Head(headers)[2] \o CRLF
         \o HeaderLines(Tail(headers))

\* headers is the dict in insertion order, as <<name, value>> pairs; body is
\* <<>> when no body is given.
send_request(method, path, headers, body, http_version) ==
    LET request_line == method \o <<SP>> \o path \o <<SP>> \o S_HTTPSlash
                        \o http_version \o CRLF
        h1 == IF HasHeader(headers, S_Host) THEN headers
              ELSE Append(headers, <<S_Host, S_HostValue>>)
        h2 == IF body # <<>> /\ ~HasHeader(h1, S_ContentLengthName)
              THEN Append(h1, <<S_ContentLengthName, str(Len(encode(body)))>>)
              ELSE h1
    IN  request_line \o HeaderLines(h2) \o CRLF \o body

SupportedMethods == {S_GET, S_POST, S_PUT, S_DELETE, S_HEAD}

RECURSIVE Body(_)
\* A request body of n bytes ("x" * n, as in test_large_body).
Body(n) == IF n = 0 THEN <<>> ELSE <<"x">> \o Body(n - 1)

Bodies == {Body(n) : n \in 0..MaxBodyLen}

\* Header dicts the tests pass: none, or Connection: close.
HeaderSets == {<<>>, <<<<S_Connection, S_close>>>>}

\* Requests as the test client builds them (TestBasicHTTPMethods,
\* TestHTTPPaths, TestHTTPVersions, TestContentHandling,
\* TestConnectionHandling): a supported method, a path, HTTP/1.0 or 1.1,
\* extra headers, a body.
TestClientRequests ==
    {send_request(m, path, h, body, v) :
        m \in SupportedMethods, path \in {PathRoot, PathTest}, h \in HeaderSets,
        body \in Bodies, v \in {V11, V10}}

\* The same with a method token the server has no handler for.
UnsupportedRequests ==
    {send_request(m, path, <<>>, <<>>, v) :
        m \in {S_PATCH, S_get}, path \in {PathRoot, PathTest}, v \in {V11, V10}}

\* test_missing_host_header: a request line and a blank line, no header.
raw_request(method, path, http_version) ==
    method \o <<SP>> \o path \o <<SP>> \o S_HTTPSlash \o http_version \o CRLF \o CRLF

NoHostRequests == {raw_request(m, PathRoot, V11) : m \in SupportedMethods}

\* Requests written to a raw socket (TestErrorHandling) and further
\* malformed inputs.
RawRequests == {RawInvalid, RawGetOnly, RawGetFoo, RawBadUtf8}

\* The request with every "\r\n" replaced by "\n": the characters of s
\* without each "\r" that a "\n" follows.
BareLF(s) ==
    LET crs == {i \in 1..(Len(s) - 1) : s[i] = CR /\ s[i + 1] = LF}
        src(j) == CHOOSE p \in j..(j + Cardinality(crs)) :
                      /\ p \notin crs
                      /\ p - Cardinality({c \in crs : c < p}) = j
    IN  [j \in 1..(Len(s) - Cardinality(crs)) |-> s[src(j)]]

CRLFRequests ==
    TestClientRequests \cup UnsupportedRequests \cup NoHostRequests \cup RawRequests

\* What one recv can hand to read_handler: a whole request, with CRLF or
\* (simple clients) bare LF line ends.
HandlerInputs == CRLFRequests \cup {BareLF(r) : r \in CRLFRequests}

\* The requests the clients of the connection-level model send.
Requests ==
    {send_request(S_GET, PathRoot, <<>>, <<>>, V11),
     send_request(S_GET, PathRoot, <<>>, <<>>, V10),
     send_request(S_GET, PathRoot, <<<<S_Connection, S_close>>>>, <<>>, V11),
     send_request(S_POST, PathRoot, <<>>, Body(MaxBodyLen), V11),
     RawBadUtf8}

\* The second request of test_multiple_requests_same_connection.
Request2 == send_request(S_GET, PathTest, <<>>, <<>>, V11)

IsPrefixAt(s, sub, i) ==
    /\ i + Len(sub) - 1 <= Len(s)
    /\ SubSeq(s, i, i + Len(sub) - 1) = sub

\* The indexes at which sub occurs in s.
Occurrences(s, sub) == {i \in 1..Len(s) : IsPrefixAt(s, sub, i)}

\* str.find: index of the first occurrence of sub in s (1-based), 0 if none.
Find(s, sub) ==
    LET occ == Occurrences(s, sub)
    IN  IF occ = {} THEN 0
        ELSE CHOOSE i \in occ : \A j \in occ : i <= j

Contains(s, sub) == Find(s, sub) # 0

\* Number of bytes up to and including the blank line that ends the header
\* block (CRLF CRLF), 0 if there is none.
HeaderBlockEnd(s) ==
    LET i == Find(s, CRLF \o CRLF) IN IF i # 0 THEN i + 3 ELSE 0

\* Sizes of the next TCP segment a client may emit from its pending bytes:
\* everything, or the header block without (all of) the body that follows.
Segments(s) ==
    {Len(s)} \cup {n \in {HeaderBlockEnd(s)} : 0 < n /\ n < Len(s)}

(***************************************************************************)
(* The state machine.                                                      *)
(***************************************************************************)
Clients == 1..NumClients

NoConn == 0

Init ==
    /\ pc = "serve"
    /\ backlog = <<>>
    /\ conn = NoConn
    /\ data = <<>>
    /\ response_data = <<>>
    /\ cstate = [c \in Clients |-> "new"]
    /\ tosend = [c \in Clients |-> <<>>]
    /\ nreq = [c \in Clients |-> 0]
    /\ sockbuf = [c \in Clients |-> <<>>]
    /\ rx = [c \in Clients |-> <<>>]
    /\ srvClosed = [c \in Clients |-> FALSE]
    /\ installed = METHODS_MAP
    /\ invoked = <<>>
    /\ ops = [c \in Clients |-> <<>>]

Listening == pc \in {"accept", "recv", "read_handler", "write_handler"}

\* A client opens a socket, connects and hands its request to send(); the
\* kernel completes the handshake while the listen queue (listen(1)) has
\* room, and a client that finds it full stays "new" and may connect later.
Connect(c, r) ==
    /\ Listening
    /\ cstate[c] = "new"
    /\ Len(backlog) < ListenBacklog
    /\ cstate' = [cstate EXCEPT ![c] = "open"]
    /\ tosend' = [tosend EXCEPT ![c] = r]
    /\ nreq' = [nreq EXCEPT ![c] = 1]
    /\ backlog' = Append(backlog, c)
    /\ UNCHANGED <<pc, conn, data, response_data, sockbuf, rx, srvClosed,
                   installed, invoked, ops>>

\* The next n pending bytes of a client reach the server's socket buffer;
\* bytes sent to a connection the server has closed are discarded.
Send(c, n) ==
    /\ cstate[c] = "open"
    /\ tosend[c] # <<>>
    /\ tosend' = [tosend EXCEPT ![c] = Drop(@, n)]
    /\ sockbuf' = [sockbuf EXCEPT
                     ![c] = IF srvClosed[c] THEN @ ELSE @ \o Take(tosend[c], n)]
    /\ UNCHANGED <<pc, backlog, conn, data, response_data, cstate, nreq, rx,
                   srvClosed, installed, invoked, ops>>

\* A client that has sent its request and received a response sends another
\* request on the same socket (test_multiple_requests_same_connection).
SendAgain(c) ==
    /\ cstate[c] = "open"
    /\ tosend[c] = <<>>
    /\ rx[c] # <<>>
    /\ nreq[c] < MaxRequests
    /\ tosend' = [tosend EXCEPT ![c] = Request2]
    /\ nreq' = [nreq EXCEPT ![c] = @ + 1]
    /\ UNCHANGED <<pc, backlog, conn, data, response_data, cstate, sockbuf, rx,
                   srvClosed, installed, invoked, ops>>

\* sock.close() on the client side, at any time.
ClientClose(c) ==
    /\ cstate[c] = "open"
    /\ cstate' = [cstate EXCEPT ![c] = "closed"]
    /\ tosend' = [tosend EXCEPT ![c] = <<>>]
    /\ nreq' = [nreq EXCEPT ![c] = 0]
    /\ UNCHANGED <<pc, backlog, conn, data, response_data, sockbuf, rx, srvClosed,
                   installed, invoked, ops>>

\* serve(): self._socket.listen(1)
Serve ==
    /\ pc = "serve"
    /\ pc' = "accept"
    /\ UNCHANGED <<backlog, conn, data, response_data, cstate, tosend, nreq,
                   sockbuf, rx, srvClosed, installed, invoked, ops>>

\* conn, addr = self._socket.accept()
Accept ==
    /\ pc = "accept"
    /\ backlog # <<>>
    /\ conn' = Head(backlog)
    /\ backlog' = Tail(backlog)
    /\ pc' = "recv"
    /\ UNCHANGED <<data, response_data, cstate, tosend, nreq, sockbuf, rx, srvClosed,
                   installed, invoked, ops>>

\* data = conn.recv(1024): blocks until bytes are there or the peer has
\* closed; "if not data: break" leaves the loop, the with block closes conn
\* and serve returns.
Recv ==
    /\ pc = "recv"
    /\ sockbuf[conn] # <<>> \/ cstate[conn] = "closed"
    /\ data' = Take(sockbuf[conn], RecvSize)
    /\ sockbuf' = [sockbuf EXCEPT ![conn] = Drop(@, RecvSize)]
    /\ IF data' = <<>>
       THEN /\ pc' = "stopped"
            /\ srvClosed' = [srvClosed EXCEPT ![conn] = TRUE]
            /\ ops' = [ops EXCEPT ![conn] = @ \o <<"recv", "close">>]
       ELSE /\ pc' = "read_handler"
            /\ ops' = [ops EXCEPT ![conn] = Append(@, "recv")]
            /\ UNCHANGED srvClosed
    /\ UNCHANGED <<backlog, conn, response_data, cstate, tosend, nreq, rx,
                   installed, invoked>>

\* response_data = self.read_handler(data); an exception of decode or of
\* the handler called is caught nowhere: the with block closes conn and the
\* process ends.
ReadHandler ==
    /\ pc = "read_handler"
    /\ LET called == IF decode_raises(data) THEN <<>>
                     ELSE invoked_by(installed, data)
       IN  /\ invoked' = called
           /\ IF decode_raises(data) \/ handler_raises(called)
              THEN /\ pc' = "crashed"
                   /\ srvClosed' = [srvClosed EXCEPT ![conn] = TRUE]
                   /\ sockbuf' = [sockbuf EXCEPT ![conn] = <<>>]
                   /\ ops' = [ops EXCEPT ![conn] = @ \o <<"read_handler", "close">>]
                   /\ UNCHANGED response_data
              ELSE /\ response_data' = read_handler_installed(installed, data)
                   /\ pc' = "write_handler"
                   /\ ops' = [ops EXCEPT ![conn] = Append(@, "read_handler")]
                   /\ UNCHANGED <<srvClosed, sockbuf>>
    /\ UNCHANGED <<backlog, conn, data, cstate, tosend, nreq, rx, installed>>

\* write_handler without its conn.close(), in a session that reads the next
\* request from the same connection.
WriteHandler_keep_open ==
    /\ pc = "write_handler"
    /\ rx' = [rx EXCEPT ![conn] = @ \o wire_bytes(response_data)]
    /\ ops' = [ops EXCEPT ![conn] = Append(@, "sendall")]
    /\ pc' = "recv"
    /\ UNCHANGED <<backlog, conn, data, response_data, cstate, tosend, nreq,
                   sockbuf, srvClosed, installed, invoked>>

\* self.write_handler(conn, response_data): sendall, then conn.close(),
\* which drops whatever the peer sent and recv never read; the loop goes
\* back to accept.  rx records the bytes handed to the connection, whether
\* or not the peer is still there to read them (a response of this size is
\* taken by the kernel even when the peer has closed).
WriteHandler ==
    /\ pc = "write_handler"
    /\ rx' = [rx EXCEPT ![conn] = @ \o wire_bytes(response_data)]
    /\ srvClosed' = [srvClosed EXCEPT ![conn] = TRUE]
    /\ sockbuf' = [sockbuf EXCEPT ![conn] = <<>>]
    /\ ops' = [ops EXCEPT ![conn] = @ \o <<"sendall", "close">>]
    /\ pc' = "accept"
    /\ UNCHANGED <<backlog, conn, data, response_data, cstate, tosend, nreq,
                   installed, invoked>>

Next ==
    \/ Serve
    \/ Accept
    \/ Recv
    \/ ReadHandler
    \/ WriteHandler
    \/ \E c \in Clients : \E r \in Requests : Connect(c, r)
    \/ \E c \in Clients : \E n \in Segments(tosend[c]) : Send(c, n)
    \/ \E c \in Clients : SendAgain(c)
    \/ \E c \in Clients : ClientClose(c)

Spec == Init /\ [][Next]_vars

(***************************************************************************)
(* read_handler and write_handler on their own: one accepted connection    *)
(* whose recv has returned a whole request, any of HandlerInputs.          *)
(***************************************************************************)
InitRH ==
    /\ pc = "read_handler"
    /\ backlog = <<>>
    /\ conn = 1
    /\ data \in HandlerInputs
    /\ response_data = <<>>
    /\ cstate = [c \in Clients |-> IF c = 1 THEN "open" ELSE "new"]
    /\ tosend = [c \in Clients |-> <<>>]
    /\ nreq = [c \in Clients |-> IF c = 1 THEN 1 ELSE 0]
    /\ sockbuf = [c \in Clients |-> <<>>]
    /\ rx = [c \in Clients |-> <<>>]
    /\ srvClosed = [c \in Clients |-> FALSE]
    /\ installed = METHODS_MAP
    /\ invoked = <<>>
    /\ ops = [c \in Clients |-> IF c = 1 THEN <<"recv">> ELSE <<>>]

NextRH == ReadHandler \/ WriteHandler

SpecRH == InitRH /\ [][NextRH]_vars

(***************************************************************************)
(* The same two steps when a key of self.METHODS_MAP may hold a handler    *)
(* that returns None or raises.                                            *)
(***************************************************************************)
InitH ==
    /\ pc = "read_handler"
    /\ backlog = <<>>
    /\ conn = 1
    /\ data \in HandlerInputs
    /\ response_data = <<>>
    /\ cstate = [c \in Clients |-> IF c = 1 THEN "open" ELSE "new"]
    /\ tosend = [c \in Clients |-> <<>>]
    /\ nreq = [c \in Clients |-> IF c = 1 THEN 1 ELSE 0]
    /\ sockbuf = [c \in Clients |-> <<>>]
    /\ rx = [c \in Clients |-> <<>>]
    /\ srvClosed = [c \in Clients |-> FALSE]
    /\ installed \in InstalledTables
    /\ invoked = <<>>
    /\ ops = [c \in Clients |-> IF c = 1 THEN <<"recv">> ELSE <<>>]

SpecH == InitH /\ [][NextRH]_vars

(***************************************************************************)
(* The server's thread keeps running: a step of serve that can be taken is *)
(* taken.  Nothing makes a client send or close.                           *)
(***************************************************************************)
SpecLive ==
    /\ Spec
    /\ WF_vars(Serve)
    /\ WF_vars(Accept)
    /\ WF_vars(Recv)
    /\ WF_vars(ReadHandler)
    /\ WF_vars(WriteHandler)

(***************************************************************************)
(* Reading requests and responses, for the properties below.               *)
(***************************************************************************)
S_200 ==
    <<"2","0","0">>

S_201 ==
    <<"2","0","1">>

S_400 ==
    <<"4","0","0">>

S_405 ==
    <<"4","0","5">>

S_AllowColon ==
    <<"A","l","l","o","w",":">>

S_TransferEncoding ==
    <<"T","r","a","n","s","f","e","r","-","E","n","c","o","d","i","n","g">>

S_HTTP1Dot ==
    <<"H","T","T","P","/","1",".">>

RECURSIVE SplitSeq(_, _)
\* str.split(sep) for a separator of several characters.
SplitSeq(s, sep) ==
    LET i == Find(s, sep)
    IN  IF i = 0 THEN <<s>>
        ELSE <<Take(s, i - 1)>> \o SplitSeq(Drop(s, i + Len(sep) - 1), sep)

IsDigit(ch) == \E d \in 1..10 : DigitChars[d] = ch

RECURSIVE ParseInt(_)
\* int(digits) for a non-empty string of decimal digits.
ParseInt(ds) ==
    IF ds = <<>> THEN 0
    ELSE 10 * ParseInt(Take(ds, Len(ds) - 1))
         + (CHOOSE d \in 0..9 : DigitChars[d + 1] = ds[Len(ds)])

AllDigits(ds) == ds # <<>> /\ \A i \in 1..Len(ds) : IsDigit(ds[i])

RECURSIVE LStrip(_)
LStrip(s) == IF s # <<>> /\ s[1] = SP THEN LStrip(Tail(s)) ELSE s

\* The lines of a message head that starts with `name:` .
LinesNamed(lines, name) ==
    {i \in 1..Len(lines) : IsPrefixAt(lines[i], name \o <<":">>, 1)}

\* The value of the first header called name (after the colon, leading blanks
\* removed); only used when there is one.
HeaderValue(lines, name) ==
    LET i == CHOOSE k \in LinesNamed(lines, name) :
                 \A j \in LinesNamed(lines, name) : k <= j
    IN  LStrip(Drop(lines[i], Len(name) + 1))

\* --- requests, read as section 4.1 / 4.2 of the specification reads them:
\* lines end in CRLF or bare LF, the head ends at the first blank line.
ReqHeadEnd(b) == Find(BareLF(b), <<LF, LF>>)

ReqLines(b) ==
    LET n == BareLF(b)
        e == Find(n, <<LF, LF>>)
    IN  split(IF e = 0 THEN n ELSE Take(n, e - 1), LF)

ReqTokens(b) == split(ReqLines(b)[1], SP)

ReqMethod(b) == ReqTokens(b)[1]

ReqHeaders(b) == Tail(ReqLines(b))

ReqBody(b) ==
    LET n == BareLF(b)
        e == Find(n, <<LF, LF>>)
    IN  IF e = 0 THEN <<>> ELSE Drop(n, e + 1)

IsHttpVersion(t) ==
    /\ Len(t) = 8
    /\ Take(t, 5) = S_HTTPSlash
    /\ IsDigit(t[6])
    /\ t[7] = "."
    /\ IsDigit(t[8])

MalformedRequestLine(b) ==
    \/ Len(ReqTokens(b)) < 3
    \/ ~IsHttpVersion(ReqTokens(b)[3])

WellFormedParts(tokens, headers, body) ==
    /\ Len(tokens) = 3
    /\ \A i \in 1..3 : tokens[i] # <<>>
    /\ IsHttpVersion(tokens[3])
    /\ \A i \in 1..Len(headers) : Contains(headers[i], <<":">>)
    /\ tokens[3] = S_HTTP11 => LinesNamed(headers, S_Host) # {}
    /\ IF LinesNamed(headers, S_ContentLengthName) # {}
       THEN LET v == HeaderValue(headers, S_ContentLengthName)
            IN  AllDigits(v) /\ Len(body) = ParseInt(v)
       ELSE body = <<>>

\* A complete, well-formed request: three request-line tokens with a version
\* HTTP/d.d, header lines with a colon, a Host header under HTTP/1.1, and a
\* body of exactly Content-Length bytes (none without that header).
WellFormed(b) ==
    /\ ~decode_raises(b)
    /\ LET n == BareLF(b)
           e == Find(n, <<LF, LF>>)
       IN  /\ e # 0
           /\ LET lines == split(Take(n, e - 1), LF)
              IN  WellFormedParts(split(lines[1], SP), Tail(lines), Drop(n, e + 1))

\* --- responses, read as the test suite reads them.
\* verify_response_status_line: response.split("\r\n\r\n")[0].split(" ")
status_parts(response) == split(SplitSeq(response, CRLF \o CRLF)[1], SP)

StatusCode(response) ==
    IF Len(status_parts(response)) >= 2 THEN status_parts(response)[2] ELSE <<>>

\* The header block: the lines before the blank line, without the status
\* line (test_response_headers_format).
RespHeaderLines(response) ==
    Tail(SplitSeq(SplitSeq(response, CRLF \o CRLF)[1], CRLF))

\* The bytes after the blank line that ends the header block.
RespBody(response) == Drop(response, HeaderBlockEnd(response))

\* The server has answered the connection it accepted last: data holds the
\* bytes it read from it and rx[conn] the bytes it wrote to it.
Responded == pc = "accept" /\ conn # NoConn /\ rx[conn] # <<>>

(***************************************************************************)
(* Properties.                                                             *)
(***************************************************************************)

\* C1: a request that is well formed (CRLF line ends, Host header) but whose
\* method token is not one of GET, POST, PUT, DELETE, HEAD (the token PATCH)
\* is answered with status 405 and an Allow header line.
C1_UnsupportedMethod405 ==
    (Responded /\ WellFormed(data) /\ ReqMethod(data) = S_PATCH
        /\ Contains(data, CRLF))
    => /\ StatusCode(rx[conn]) = S_405
       /\ \E i \in 1..Len(RespHeaderLines(rx[conn])) :
              IsPrefixAt(RespHeaderLines(rx[conn])[i], S_AllowColon, 1)

ExpectedStatus(m) ==
    CASE m = S_GET -> Code200
      [] m = S_POST -> Code200
      [] m = S_PUT -> Code201
      [] m = S_DELETE -> Code204
      [] m = S_HEAD -> Code200

C3_TestClientAlways200 ==
    (Responded /\ data \in TestClientRequests)
    => /\ status_parts(rx[conn])[1] = S_HTTP11
       /\ StatusCode(rx[conn]) = S_200

\* C4: in every response built by _basic_ok and written to a connection by
\* write_handler, the number of bytes after the blank line that ends the
\* header block equals the Content-Length value.
C4_ContentLengthExact ==
    (Responded /\ WellFormed(data) /\ ReqMethod(data) \in SupportedMethods)
    => /\ HeaderBlockEnd(rx[conn]) # 0
       /\ LinesNamed(RespHeaderLines(rx[conn]), S_ContentLengthName) # {}
       /\ LET v == HeaderValue(RespHeaderLines(rx[conn]), S_ContentLengthName)
          IN  AllDigits(v) /\ Len(RespBody(rx[conn])) = ParseInt(v)

\* C5: the response to a HEAD request has no byte after the blank line that
\* ends its header block.
C5_HeadEmptyBody ==
    (Responded /\ WellFormed(data) /\ ReqMethod(data) = S_HEAD)
    => /\ HeaderBlockEnd(rx[conn]) # 0
       /\ RespBody(rx[conn]) = <<>>

NoHostRequest(b) ==
    /\ ~decode_raises(b)
    /\ ReqHeadEnd(b) # 0
    /\ Len(ReqTokens(b)) = 3
    /\ ReqMethod(b) \in SupportedMethods
    /\ ReqTokens(b)[3] = S_HTTP11
    /\ LinesNamed(ReqHeaders(b), S_Host) = {}

\* C6: an HTTP/1.1 request with a supported method and no Host header is
\* answered with a response that starts with HTTP/1.1 and has a 4xx status.
C6_MissingHost400 ==
    (Responded /\ NoHostRequest(data))
    => /\ IsPrefixAt(rx[conn], S_HTTP11, 1)
       /\ Len(StatusCode(rx[conn])) = 3
       /\ StatusCode(rx[conn])[1] = "4"

IncompleteBody(b) ==
    /\ ~decode_raises(b)
    /\ ReqHeadEnd(b) # 0
    /\ LinesNamed(ReqHeaders(b), S_ContentLengthName) # {}
    /\ LET v == HeaderValue(ReqHeaders(b), S_ContentLengthName)
       IN  AllDigits(v) /\ Len(ReqBody(b)) < ParseInt(v)

\* C7: while the bytes read from a connection hold a complete header block
\* declaring Content-Length: N and fewer than N body bytes, the request is
\* neither dispatched nor answered.
C7_NoDispatchBeforeBody ==
    (conn # NoConn /\ IncompleteBody(data))
    => /\ pc # "write_handler"
       /\ rx[conn] = <<>>

KeepAliveRequest(b) ==
    /\ WellFormed(b)
    /\ ReqMethod(b) \in SupportedMethods
    /\ ReqTokens(b)[3] = S_HTTP11
    /\ \/ LinesNamed(ReqHeaders(b), S_Connection) = {}
       \/ HeaderValue(ReqHeaders(b), S_Connection) # S_close

\* C8: after the response to a well-formed HTTP/1.1 request without
\* Connection: close has been written, the server has not closed the
\* connection.
C8_KeepAlive ==
    (Responded /\ KeepAliveRequest(data)) => ~srvClosed[conn]

IsStatusLine(l) ==
    /\ Len(l) >= 14
    /\ Take(l, 7) = S_HTTP1Dot
    /\ IsDigit(l[8])
    /\ l[9] = SP
    /\ \A i \in 10..12 : IsDigit(l[i])
    /\ l[13] = SP
    /\ \A i \in 14..Len(l) : l[i] \notin {CR, LF}

ValidHead(response) ==
    /\ HeaderBlockEnd(response) # 0
    /\ IsStatusLine(SplitSeq(response, CRLF)[1])
    /\ \A i \in 1..Len(RespHeaderLines(response)) :
           \/ RespHeaderLines(response)[i] = <<>>
           \/ Contains(RespHeaderLines(response)[i], <<":">>)

\* C9: the response to a well-formed request with a supported method has a
\* header block whose first line is HTTP/1.<digit> <three digits> <reason>,
\* whose other non-empty lines contain a colon, and which holds a
\* Content-Length: header (or a Transfer-Encoding: header).
C9_ResponseFormat ==
    (Responded /\ WellFormed(data) /\ ReqMethod(data) \in SupportedMethods)
    => /\ ValidHead(rx[conn])
       /\ \/ LinesNamed(RespHeaderLines(rx[conn]), S_ContentLengthName) # {}
          \/ LinesNamed(RespHeaderLines(rx[conn]), S_TransferEncoding) # {}

C9_Witness ==
    /\ Responded
    /\ WellFormed(data)
    /\ ReqMethod(data) = S_GET
    /\ ValidHead(rx[conn])
    /\ LinesNamed(RespHeaderLines(rx[conn]), S_ContentLengthName) # {}

\* C10: a connection whose request line is malformed (INVALID REQUEST LINE)
\* is closed with nothing written, or gets a 400 response that is valid
\* HTTP: status line, header block and blank line, each line ended by CRLF.
C10_MalformedGetsValid400 ==
    (conn # NoConn /\ srvClosed[conn] /\ pc = "accept" /\ Contains(data, CRLF)
        /\ MalformedRequestLine(data) /\ ReqMethod(data) \notin SupportedMethods)
    => \/ rx[conn] = <<>>
       \/ /\ StatusCode(rx[conn]) = S_400
          /\ ValidHead(rx[conn])

\* read_handler has run on the bytes read from conn: data holds those bytes
\* and invoked the handlers it called.
Handled ==
    /\ conn # NoConn
    /\ Len(ops[conn]) >= 2
    /\ ops[conn][2] = "read_handler"

\* C11: when the bytes read from a connection are not valid UTF-8 the server
\* does not crash: serve carries on (it writes a response and accepts again),
\* and that connection gets a 400 response or is closed with nothing written.
C11_InvalidUtf8NoCrash ==
    (Handled /\ decode_raises(data))
    => /\ pc \in {"write_handler", "accept"}
       /\ srvClosed[conn] => (rx[conn] = <<>> \/ StatusCode(rx[conn]) = S_400)

S_500 ==
    <<"5","0","0">>

\* The handler read_handler called failed: it raised, or it returned no
\* response data.
HandlerFailed == invoked = <<N_raising_handler>> \/ invoked = <<N_none_handler>>

\* C12: once read_handler has invoked a handler of METHODS_MAP for a request,
\* the session does not end without a response written to that connection,
\* and when the handler raised or returned no response data that response
\* has status 500 and carries the generic message.
C12_HandlerFailure500 ==
    (Handled /\ WellFormed(data) /\ invoked # <<>> /\ pc # "write_handler")
    => /\ rx[conn] # <<>>
       /\ HandlerFailed => /\ StatusCode(rx[conn]) = S_500
                           /\ Contains(rx[conn], Msg500)

\* The steps the server's thread takes by itself.
ServerStep == Serve \/ Accept \/ Recv \/ ReadHandler \/ WriteHandler

\* The connection accepted last is open and its client has sent no byte yet.
IdleAccepted ==
    /\ pc = "recv"
    /\ cstate[conn] = "open"
    /\ tosend[conn] # <<>>
    /\ sockbuf[conn] = <<>>

\* Client c has connected and its whole, well-formed request has arrived at
\* the server, which has not accepted it yet.
SentAndWaiting(c) ==
    /\ cstate[c] = "open"
    /\ \E i \in 1..Len(backlog) : backlog[i] = c
    /\ tosend[c] = <<>>
    /\ WellFormed(sockbuf[c])

\* C13: clients are served concurrently: while an accepted connection is
\* open and has not sent its request, a second client that has connected and
\* sent a well-formed request is served without waiting for the first, that
\* is, the server can take its next step without any step of the first.
C13_ServedConcurrently ==
    \A c \in Clients :
        (IdleAccepted /\ SentAndWaiting(c)) => ENABLED ServerStep

\* C14: every accepted connection is eventually closed by the server, also
\* when its peer stays connected and never sends a byte (a read that does
\* not complete is ended by a timeout).
C14_IdlePeerEventuallyClosed ==
    \A c \in Clients : [](ops[c] = <<>> /\ conn = c /\ pc = "recv" => <>srvClosed[c])

StatusLine200OK ==
    <<"H","T","T","P","/","1",".","1"," ","2","0","0"," ","O","K","\r","\n">>

S_BadRequest ==
    <<"B","a","d"," ","R","e","q","u","e","s","t">>

\* The reason phrase of a response: what follows "<version> <code> " on its
\* first line (ended by CRLF or LF).
ReasonPhrase(response) ==
    LET line == split(SplitSeq(response, CRLF)[1], LF)[1]
        parts == split(line, SP)
    IN  IF Len(parts) < 3 THEN <<>>
        ELSE Drop(line, Len(parts[1]) + Len(parts[2]) + 2)

\* C15: the response to GET / HTTP/1.1 with a Host header begins with the
\* status line "HTTP/1.1 200 OK" followed by CRLF, and every response with
\* status 400 has the reason phrase "Bad Request".
C15_ExactReasonPhrases ==
    Responded
    => /\ (WellFormed(data) /\ ReqTokens(data) = <<S_GET, PathRoot, S_HTTP11>>)
            => Take(rx[conn], Len(StatusLine200OK)) = StatusLine200OK
       /\ StatusCode(rx[conn]) = S_400 => ReasonPhrase(rx[conn]) = S_BadRequest

\* C16: a request line with fewer than three space-separated tokens, or whose
\* third token is not HTTP/<digit>.<digit>, is answered 400 and no handler is
\* invoked, also when its first token is a supported method (GET alone,
\* GET / FOO).
C16_MalformedLineSupportedMethod ==
    (Responded /\ Handled /\ MalformedRequestLine(data)
        /\ ReqMethod(data) \in SupportedMethods)
    => /\ StatusCode(rx[conn]) = S_400
       /\ invoked = <<>>

\* The first read on connection c returned zero bytes (the peer had
\* disconnected) and the server closed it.
ZeroByteRead(c) == ops[c] = <<"recv", "close">>

\* C17: after a connection whose first read returns zero bytes, only that
\* connection is closed, with no response written to it, and the accept loop
\* of serve is still running, so that a later client is accepted and answered.
C17_ZeroByteReadKeepsServing ==
    \A c \in Clients :
        ZeroByteRead(c) => /\ rx[c] = <<>>
                           /\ Listening

\* C18: the status code of the response does not depend on the line ends of
\* the request: a well-formed request with CRLF line ends gets the status
\* code that the same request with every "\r\n" replaced by "\n" gets.
C18_LineEndingIndependent ==
    (Responded /\ Handled /\ WellFormed(data) /\ Contains(data, CRLF))
    => \A bare \in {BareLF(data)} :
           \A answer \in {wire_bytes(read_handler(bare))} :
               StatusCode(rx[conn]) = StatusCode(answer)

\* The steps of a whole session, in order.
SessionOrder == <<"recv", "read_handler", "sendall", "close">>

IsPrefixOf(a, b) == Len(a) <= Len(b) /\ a = SubSeq(b, 1, Len(a))

HandlerOf(m) ==
    CASE m = S_GET -> N_get_handler
      [] m = S_POST -> N_post_handler
      [] m = S_PUT -> N_put_handler
      [] m = S_DELETE -> N_delete_handler
      [] m = S_HEAD -> N_head_handler

====
